---------------------------- MODULE Spec2Model ----------------------------
(***************************************************************************)
(* A model of the Split kernel of tensorflow/core/kernels/split_op.cc:     *)
(* SplitOpBase::ComputeEasyCases and SetDims, SplitOpCPU::Compute and       *)
(* SplitOpGPU::Compute, together with the compute stream and the event     *)
(* manager callback the GPU kernel hands its staging buffer to.            *)
(*                                                                         *)
(* One behaviour is one invocation of Compute.  The inputs of the          *)
(* invocation (device, element size, input shape, split_dim, num_split)    *)
(* are chosen by Init and never change.  The input tensor holds the value  *)
(* k at flat (row-major) position k, so that every element is              *)
(* recognisable in the outputs.                                            *)
(*                                                                         *)
(* int32 is modelled as a two's complement integer of IntBits bits: the    *)
(* arithmetic is that of the code modulo 2^IntBits instead of 2^32, which  *)
(* lets the model enumerate tensors whose element count leaves the range.  *)
(* int64 (TensorShape's dimension sizes, Eigen::DenseIndex) is exact.      *)
(***************************************************************************)
EXTENDS Integers, Sequences, FiniteSets, TLC

\* ------------------------------------------------------------------ bounds
MaxRank == 3
MaxDim == 4
MaxSplit == 3
IntBits == 4

\* ------------------------------------------------------------ input space
Devices == {"CPU", "GPU"}
ElemSizes == {1, 2}
Alignment == 2

RECURSIVE Pow2(_)
Pow2(n) == IF n = 0 THEN 1 ELSE 2 * Pow2(n - 1)

RECURSIVE ShapesOfRank(_)
ShapesOfRank(r) ==
    IF r = 0 THEN {<<>>}
    ELSE {Append(s, d) : s \in ShapesOfRank(r - 1), d \in 0..MaxDim}

Shapes == UNION {ShapesOfRank(r) : r \in 0..MaxRank}

\* ------------------------------------------------------- integer arithmetic
\* Conversion of a wider value to int32 (modular, as on every supported build).
Wrap(x) == ((x + Pow2(IntBits - 1)) % Pow2(IntBits)) - Pow2(IntBits - 1)

\* C++ integer division (truncates toward zero), divisor > 0.
Quot(a, b) == IF a >= 0 THEN a \div b ELSE -((-a) \div b)

\* a * b * c on int32 operands.  Signed overflow is undefined: a build either
\* wraps each multiplication or evaluates the expression in a wider register.
Mul3Outcomes(a, b, c) == {Wrap(Wrap(a * b) * c), a * b * c}

\* ------------------------------------------------------------- TensorShape
RECURSIVE NumElements(_)
NumElements(s) == IF s = <<>> THEN 1 ELSE Head(s) * NumElements(Tail(s))

\* dim_size(k) with the code's 0-based k
DimSize(s, k) == s[k + 1]

SetDim(s, k, v) == [s EXCEPT ![k + 1] = v]

\* Product of the dimensions after the first one.
InnerElements(s) == NumElements(Tail(s))

IsInnerDimsSizeAligned(s, elemSize) ==
    /\ Len(s) > 0
    /\ (InnerElements(s) * elemSize) % Alignment = 0

\* ------------------------------------------------------------------ tensors
Uninit == -1

NoOutput == [kind |-> "none", shape |-> <<>>, lo |-> 0, hi |-> 0, data |-> <<>>]

\* The input tensor: value k at flat position k (sequence position k + 1).
InputData(s) == [k \in 1..NumElements(s) |-> k - 1]

\* context->set_output(i, input): the output shares the input's buffer.
InputAlias(s) ==
    [kind |-> "input", shape |-> s, lo |-> 0, hi |-> 0, data |-> InputData(s)]

\* input.Slice(lo, hi): a view of rows [lo, hi) of the first dimension.
Slice(s, lo, hi) ==
    [kind |-> "slice", shape |-> SetDim(s, 0, hi - lo), lo |-> lo, hi |-> hi,
     data |-> [k \in 1..((hi - lo) * InnerElements(s)) |->
                   InputData(s)[lo * InnerElements(s) + k]]]

\* A freshly allocated output buffer: owned storage, contents not yet written.
Allocated(s) ==
    [kind |-> "alloc", shape |-> s, lo |-> 0, hi |-> 0,
     data |-> [k \in 1..NumElements(s) |-> Uninit]]


\* ---------------------------------------------------- strided-copy primitives
\* functor::Split<CPUDevice, T>: output = input.slice(slice_indices, slice_sizes)
\* on the 3-D view inDims of the input; the result is the flat (row-major)
\* content of the 3-D output of extents slice_sizes.
SplitFunctor(s, inDims, slice_indices, slice_sizes, old) ==
    IF \E j \in 1..3 : slice_sizes[j] <= 0
    THEN old
    ELSE [k \in 1..Len(old) |->
            LET f  == k - 1
                pp == f \div (slice_sizes[2] * slice_sizes[3])
                jj == (f \div slice_sizes[3]) % slice_sizes[2]
                ss == f % slice_sizes[3]
                src == ((slice_indices[1] + pp) * inDims[2]
                           + slice_indices[2] + jj) * inDims[3]
                       + slice_indices[3] + ss
            IN  IF f < slice_sizes[1] * slice_sizes[2] * slice_sizes[3]
                THEN InputData(s)[src + 1]
                ELSE old[k]]

\* SplitOpGPULaunch<T>::Run: one kernel over the input offsets below size;
\* the element at 3-D position (i, j, k) of the input goes to output
\* j / split_dim_output_size.  KernelData is what the kernel leaves in the
\* buffer of output t.
KernelData(s, t, nsplit, prefix, split, suffix, size, old) ==
    IF Quot(split, nsplit) <= 0 \/ suffix <= 0
    THEN old
    ELSE [k \in 1..Len(old) |->
            LET d   == Quot(split, nsplit)
                f   == k - 1
                i   == f \div (d * suffix)
                jj  == (f \div suffix) % d
                kk  == f % suffix
                off == (i * split + t * d + jj) * suffix + kk
            IN  IF off < size /\ off < NumElements(s)
                THEN InputData(s)[off + 1]
                ELSE old[k]]

\* ------------------------------------------------------------------- state
VARIABLES
    device,         \* "CPU" or "GPU": which kernel class is registered
    sizeofT,        \* sizeof(T)
    input_shape,    \* context->input(1).shape()
    split_dim,      \* context->input(0).flat<int32>()(0)
    num_split,      \* num_outputs()
    pc,             \* position of the calling thread in Compute
    status,         \* context->status()
    done,           \* the local 'done' of Compute
    outputs,        \* the context's outputs, by index
    dims,           \* <<prefix_dim_size, split_dim_size, suffix_dim_size>>, <<>> before SetDims
    i,              \* loop counter of the allocation loop
    indices1,       \* indices[1] of SplitOpCPU::Compute
    events,         \* what the calling thread did, in order
    hostAllocated,  \* output_ptrs_on_host has a buffer
    hostRefs,       \* reference count of that buffer
    hostFreeCount,  \* how many times the buffer was released to the allocator
    refTaken,       \* tensor_ref was constructed
    hostPtrs,       \* output_ptrs_on_host_arr
    devPtrs,        \* content of output_ptrs_on_gpu
    queue,          \* operations enqueued on the stream and not yet run
    executed,       \* operations the stream has run, in order
    streamOk,       \* stream->ok()
    useAfterFree    \* the stream read the host buffer after its release

inputs == <<device, sizeofT, input_shape, split_dim, num_split>>
thread == <<pc, status, done, outputs, dims, i, indices1, events>>
staging == <<hostAllocated, hostRefs, hostFreeCount, refTaken, hostPtrs>>
stream == <<devPtrs, queue, executed, streamOk, useAfterFree>>
vars == <<inputs, thread, staging, stream>>

OutIdx == 0..(MaxSplit - 1)

Init ==
    /\ device \in Devices
    /\ sizeofT \in ElemSizes
    /\ input_shape \in Shapes
    /\ split_dim \in -1..MaxRank
    /\ num_split \in 0..MaxSplit
    /\ pc = "start"
    /\ status = "OK"
    /\ done = FALSE
    /\ outputs = [k \in OutIdx |-> NoOutput]
    /\ dims = <<>>
    /\ i = 0
    /\ indices1 = 0
    /\ events = <<>>
    /\ hostAllocated = FALSE
    /\ hostRefs = 0
    /\ hostFreeCount = 0
    /\ refTaken = FALSE
    /\ hostPtrs = [k \in OutIdx |-> Uninit]
    /\ devPtrs = [k \in OutIdx |-> Uninit]
    /\ queue = <<>>
    /\ executed = <<>>
    /\ streamOk = TRUE
    /\ useAfterFree = FALSE

\* ------------------------------------------------------- ComputeEasyCases
\* RejectsArgs without the divisibility test of lines 60-65.
RejectsArgs_NoDivisibility ==
    \/ ~(0 <= split_dim /\ split_dim < Len(input_shape))
    \/ ~(num_split > 0)

\* Lines 50-65: the three OP_REQUIRES, in order; TRUE when one of them fails.
RejectsArgs ==
    \/ ~(0 <= split_dim /\ split_dim < Len(input_shape))
    \/ ~(num_split > 0)
    \/ ~(DimSize(input_shape, split_dim) % num_split = 0)

\* IdentityOutputs with a copy of the input in a new buffer instead of the input.
IdentityOutputs_Copy ==
    [outputs EXCEPT ![0] =
        [Allocated(input_shape) EXCEPT !.data = InputData(input_shape)]]

\* Line 69: context->set_output(0, context->input(1))
IdentityOutputs == [outputs EXCEPT ![0] = InputAlias(input_shape)]

\* SliceOutputs with the start row not scaled by delta.
SliceOutputs_UnscaledStart ==
    LET delta == DimSize(input_shape, 0) \div num_split
    IN  [k \in OutIdx |->
            IF k < num_split
            THEN Slice(input_shape, k, k + delta)
            ELSE outputs[k]]

\* Lines 84-87: set_output(i, input.Slice(i * delta, (i + 1) * delta))
SliceOutputs ==
    LET delta == DimSize(input_shape, 0) \div num_split
    IN  [k \in OutIdx |->
            IF k < num_split
            THEN Slice(input_shape, k * delta, (k + 1) * delta)
            ELSE outputs[k]]

ComputeEasyCases ==
    /\ pc = "start"
    /\ pc' = "easy_returned"
    /\ IF RejectsArgs
       THEN /\ status' = "InvalidArgument"
            /\ UNCHANGED <<done, outputs>>
       ELSE IF num_split = 1
       THEN /\ outputs' = IdentityOutputs
            /\ done' = TRUE
            /\ UNCHANGED status
       ELSE IF split_dim = 0 /\ IsInnerDimsSizeAligned(input_shape, sizeofT)
       THEN /\ outputs' = SliceOutputs
            /\ done' = TRUE
            /\ UNCHANGED status
       ELSE UNCHANGED <<status, done, outputs>>
    /\ UNCHANGED <<inputs, dims, i, indices1, events, staging, stream>>

\* if (!context->status().ok() || done) return;
ComputeReturnEarly ==
    /\ pc = "easy_returned"
    /\ status # "OK" \/ done
    /\ pc' = "done"
    /\ UNCHANGED <<inputs, status, done, outputs, dims, i, indices1, events,
                   staging, stream>>

\* ------------------------------------------------------------------ SetDims
RECURSIVE DimProduct(_, _, _, _)
\* prefix_dim_size *= input_shape.dim_size(k) for k in [from, to), starting at acc
DimProduct(s, from, to, acc) ==
    IF from >= to THEN acc
    ELSE DimProduct(s, from + 1, to, Wrap(acc * DimSize(s, from)))

SetDims(s, sd) ==
    <<DimProduct(s, 0, sd, 1),
      Wrap(DimSize(s, sd)),
      DimProduct(s, sd + 1, Len(s), 1)>>

split_dim_output_size == Quot(dims[2], num_split)

output_shape == SetDim(input_shape, split_dim, split_dim_output_size)

\* Tensor::shaped<T, 3>(new_sizes) CHECK-fails (the process aborts) unless the
\* new sizes multiply to the tensor's element count.
ShapedOk(s, new_sizes) ==
    new_sizes[1] * new_sizes[2] * new_sizes[3] = NumElements(s)

\* One entry of the calling thread's history.
Ev(op, idx, start, sizes) == [op |-> op, idx |-> idx, start |-> start, sizes |-> sizes]

AllocEv(op, idx) == Ev(op, idx, <<>>, <<>>)

\* -------------------------------------------------------- SplitOpCPU::Compute
\* Lines 122-142: geometry, the 3-D view of the input, the output shape.
CpuSetup ==
    /\ pc = "easy_returned"
    /\ status = "OK" /\ ~done
    /\ device = "CPU"
    /\ dims' = SetDims(input_shape, split_dim)
    /\ pc' = IF ShapedOk(input_shape, SetDims(input_shape, split_dim))
             THEN "cpu_alloc" ELSE "aborted"
    /\ i' = 0
    /\ indices1' = 0
    /\ UNCHANGED <<inputs, status, done, outputs, events, staging, stream>>

\* CpuAllocateOutput without the return of OP_REQUIRES_OK on a failed allocation.
CpuAllocateOutput_NoReturn ==
    /\ pc = "cpu_alloc"
    /\ i < num_split
    /\ \E ok \in BOOLEAN :
         IF ok
         THEN /\ outputs' = [outputs EXCEPT ![i] = Allocated(output_shape)]
              /\ events' = Append(events, AllocEv("allocate_output", i))
              /\ pc' = "cpu_copy"
              /\ UNCHANGED status
         ELSE /\ status' = "ResourceExhausted"
              /\ outputs' = [outputs EXCEPT ![i] = Allocated(output_shape)]
              /\ pc' = "cpu_copy"
              /\ UNCHANGED events
    /\ UNCHANGED <<inputs, done, dims, i, indices1, staging, stream>>

\* Lines 144-147: the loop test and allocate_output(i, ...), which may fail.
CpuAllocateOutput ==
    /\ pc = "cpu_alloc"
    /\ i < num_split
    /\ \E ok \in BOOLEAN :
         IF ok
         THEN /\ outputs' = [outputs EXCEPT ![i] = Allocated(output_shape)]
              /\ events' = Append(events, AllocEv("allocate_output", i))
              /\ pc' = "cpu_copy"
              /\ UNCHANGED status
         ELSE /\ status' = "ResourceExhausted"
              /\ pc' = "done"
              /\ UNCHANGED <<outputs, events>>
    /\ UNCHANGED <<inputs, done, dims, i, indices1, staging, stream>>

\* Lines 148-163: the emptiness test, the copy of slice i, the advance.
CpuSplit ==
    /\ pc = "cpu_copy"
    /\ \E count \in Mul3Outcomes(dims[1], split_dim_output_size, dims[3]) :
         LET sizes == <<dims[1], split_dim_output_size, dims[3]>>
             start == <<0, indices1, 0>>
         IN  IF count > 0
             THEN IF ShapedOk(outputs[i].shape, sizes)
                  THEN /\ outputs' = [outputs EXCEPT ![i].data =
                              SplitFunctor(input_shape, dims, start, sizes, @)]
                       /\ events' = Append(events, Ev("Split", i, start, sizes))
                       /\ pc' = "cpu_alloc"
                  ELSE /\ pc' = "aborted"
                       /\ UNCHANGED <<outputs, events>>
             ELSE /\ pc' = "cpu_alloc"
                  /\ UNCHANGED <<outputs, events>>
    /\ indices1' = indices1 + split_dim_output_size
    /\ i' = i + 1
    /\ UNCHANGED <<inputs, status, done, dims, staging, stream>>

\* Line 144 with i == num_split: the loop ends and Compute returns.
CpuLoopExit ==
    /\ pc = "cpu_alloc"
    /\ i >= num_split
    /\ pc' = "done"
    /\ UNCHANGED <<inputs, status, done, outputs, dims, i, indices1, events,
                   staging, stream>>

\* -------------------------------------------------------- SplitOpGPU::Compute
\* TensorReferenceRefs without the Ref.
TensorReferenceRefs_NoRef(r) == r

\* TensorReference(output_ptrs_on_host): one more reference on the buffer.
TensorReferenceRefs(r) == r + 1

\* Unref of the host staging buffer: the last reference releases it.
UnrefHost ==
    /\ hostRefs' = hostRefs - 1
    /\ hostFreeCount' = IF hostRefs - 1 <= 0 THEN hostFreeCount + 1
                        ELSE hostFreeCount

\* Lines 190-207: geometry and the output shape.
GpuSetup ==
    /\ pc = "easy_returned"
    /\ status = "OK" /\ ~done
    /\ device = "GPU"
    /\ dims' = SetDims(input_shape, split_dim)
    /\ pc' = "gpu_alloc_host"
    /\ i' = 0
    /\ UNCHANGED <<inputs, status, done, outputs, indices1, events, staging,
                   stream>>

\* Lines 209-214: allocate_temp of the host-resident pointer array.
GpuAllocHost ==
    /\ pc = "gpu_alloc_host"
    /\ \E ok \in BOOLEAN :
         IF ok
         THEN /\ hostAllocated' = TRUE
              /\ hostRefs' = 1
              /\ events' = Append(events, AllocEv("allocate_temp_host", 0))
              /\ pc' = "gpu_alloc_dev"
              /\ UNCHANGED status
         ELSE /\ status' = "ResourceExhausted"
              /\ pc' = "gpu_return"
              /\ UNCHANGED <<hostAllocated, hostRefs, events>>
    /\ UNCHANGED <<inputs, done, outputs, dims, i, indices1, hostFreeCount,
                   refTaken, hostPtrs, stream>>

\* Lines 215-219: allocate_temp of the device-resident pointer array.
GpuAllocDev ==
    /\ pc = "gpu_alloc_dev"
    /\ \E ok \in BOOLEAN :
         IF ok
         THEN /\ events' = Append(events, AllocEv("allocate_temp_gpu", 0))
              /\ pc' = "gpu_alloc_out"
              /\ UNCHANGED status
         ELSE /\ status' = "ResourceExhausted"
              /\ pc' = "gpu_return"
              /\ UNCHANGED events
    /\ UNCHANGED <<inputs, done, outputs, dims, i, indices1, staging, stream>>

\* Lines 220-225: allocate_output(i, ...) and output_ptrs_on_host_arr[i] = ...
GpuAllocateOutput ==
    /\ pc = "gpu_alloc_out"
    /\ i < num_split
    /\ \E ok \in BOOLEAN :
         IF ok
         THEN /\ outputs' = [outputs EXCEPT ![i] = Allocated(output_shape)]
              /\ hostPtrs' = [hostPtrs EXCEPT ![i] = i]
              /\ events' = Append(events, AllocEv("allocate_output", i))
              /\ i' = i + 1
              /\ UNCHANGED <<pc, status>>
         ELSE /\ status' = "ResourceExhausted"
              /\ pc' = "gpu_return"
              /\ UNCHANGED <<outputs, hostPtrs, events, i>>
    /\ UNCHANGED <<inputs, done, dims, indices1, hostAllocated, hostRefs,
                   hostFreeCount, refTaken, stream>>

\* GpuCheckEmpty without the early return of lines 226-228.
GpuCheckEmpty_NoTest ==
    /\ pc = "gpu_alloc_out"
    /\ i >= num_split
    /\ pc' = "gpu_memcpy"
    /\ hostRefs' = hostRefs + 1
    /\ refTaken' = TRUE
    /\ UNCHANGED <<inputs, status, done, outputs, dims, i, indices1, events,
                   hostAllocated, hostFreeCount, hostPtrs, stream>>

\* Lines 226-232: the emptiness test; then the stream and tensor_ref.
GpuCheckEmpty ==
    /\ pc = "gpu_alloc_out"
    /\ i >= num_split
    /\ \E count \in Mul3Outcomes(dims[1], split_dim_output_size, dims[3]) :
         IF count = 0
         THEN /\ pc' = "gpu_return"
              /\ UNCHANGED <<hostRefs, refTaken>>
         ELSE /\ pc' = "gpu_memcpy"
              /\ hostRefs' = TensorReferenceRefs(hostRefs)
              /\ refTaken' = TRUE
    /\ UNCHANGED <<inputs, status, done, outputs, dims, i, indices1, events,
                   hostAllocated, hostFreeCount, hostPtrs, stream>>

\* Lines 233-235: stream->ThenMemcpy(&output_ptrs_base, host array, bytes)
GpuThenMemcpy ==
    /\ pc = "gpu_memcpy"
    /\ queue' = Append(queue, "memcpy")
    /\ events' = Append(events, AllocEv("enqueue_memcpy", 0))
    /\ pc' = "gpu_callback"
    /\ UNCHANGED <<inputs, status, done, outputs, dims, i, indices1, staging,
                   devPtrs, executed, streamOk, useAfterFree>>

\* Lines 236-237: event_mgr->ThenExecute(stream, [tensor_ref]() { Unref })
GpuThenExecute ==
    /\ pc = "gpu_callback"
    /\ queue' = Append(queue, "callback")
    /\ events' = Append(events, AllocEv("enqueue_callback", 0))
    /\ pc' = "gpu_launch"
    /\ UNCHANGED <<inputs, status, done, outputs, dims, i, indices1, staging,
                   devPtrs, executed, streamOk, useAfterFree>>

\* Lines 238-241: SplitOpGPULaunch<T>().Run(...)
GpuLaunch ==
    /\ pc = "gpu_launch"
    /\ queue' = Append(queue, "kernel")
    /\ events' = Append(events, AllocEv("enqueue_kernel", 0))
    /\ pc' = "gpu_check"
    /\ UNCHANGED <<inputs, status, done, outputs, dims, i, indices1, staging,
                   devPtrs, executed, streamOk, useAfterFree>>

\* GpuCheckStream without the test of stream->ok().
GpuCheckStream_Unchecked ==
    /\ pc = "gpu_check"
    /\ pc' = "gpu_return"
    /\ UNCHANGED <<inputs, status, done, outputs, dims, i, indices1, events,
                   staging, stream>>

\* Lines 242-243: OP_REQUIRES(context, stream->ok(), errors::Internal(...))
GpuCheckStream ==
    /\ pc = "gpu_check"
    /\ status' = IF streamOk THEN status ELSE "Internal"
    /\ pc' = "gpu_return"
    /\ UNCHANGED <<inputs, done, outputs, dims, i, indices1, events, staging,
                   stream>>

\* Line 244 and every return after line 209: the locals go out of scope, the
\* Tensor output_ptrs_on_host drops its reference (tensor_ref drops none).
GpuReturn ==
    /\ pc = "gpu_return"
    /\ pc' = "done"
    /\ IF hostAllocated THEN UnrefHost
       ELSE UNCHANGED <<hostRefs, hostFreeCount>>
    /\ UNCHANGED <<inputs, status, done, outputs, dims, i, indices1, events,
                   hostAllocated, refTaken, hostPtrs, stream>>

\* ------------------------------------------------- stream and event manager
\* The device reports an error on the stream while Compute is enqueueing.
StreamFails ==
    /\ pc \in {"gpu_memcpy", "gpu_callback", "gpu_launch", "gpu_check"}
    /\ streamOk
    /\ streamOk' = FALSE
    /\ UNCHANGED <<inputs, thread, staging, devPtrs, queue, executed,
                   useAfterFree>>

\* The stream runs the host-to-device copy of the pointer array.
StreamRunMemcpy ==
    /\ queue # <<>> /\ Head(queue) = "memcpy"
    /\ queue' = Tail(queue)
    /\ executed' = Append(executed, "memcpy")
    /\ IF hostFreeCount > 0
       THEN /\ useAfterFree' = TRUE
            /\ UNCHANGED devPtrs
       ELSE /\ devPtrs' = hostPtrs
            /\ UNCHANGED useAfterFree
    /\ UNCHANGED <<inputs, thread, staging, streamOk>>

\* StreamRunCallback with a callback that does not Unref.
StreamRunCallback_NoUnref ==
    /\ queue # <<>> /\ Head(queue) = "callback"
    /\ queue' = Tail(queue)
    /\ executed' = Append(executed, "callback")
    /\ UNCHANGED <<inputs, thread, staging, devPtrs, streamOk, useAfterFree>>

\* The event manager runs the callback: tensor_ref.Unref().
StreamRunCallback ==
    /\ queue # <<>> /\ Head(queue) = "callback"
    /\ queue' = Tail(queue)
    /\ executed' = Append(executed, "callback")
    /\ UnrefHost
    /\ UNCHANGED <<inputs, thread, hostAllocated, refTaken, hostPtrs, devPtrs,
                   streamOk, useAfterFree>>

\* The stream runs the split kernel, which writes through the device array.
StreamRunKernel ==
    /\ queue # <<>> /\ Head(queue) = "kernel"
    /\ queue' = Tail(queue)
    /\ executed' = Append(executed, "kernel")
    /\ \E size \in Mul3Outcomes(dims[1], dims[2], dims[3]) :
         outputs' = [k \in OutIdx |->
            IF \E t \in 0..(num_split - 1) : devPtrs[t] = k
            THEN LET t == CHOOSE t \in 0..(num_split - 1) : devPtrs[t] = k
                 IN  [outputs[k] EXCEPT !.data =
                        KernelData(input_shape, t, num_split, dims[1], dims[2],
                                   dims[3], size, @)]
            ELSE outputs[k]]
    /\ UNCHANGED <<inputs, pc, status, done, dims, i, indices1, events, staging,
                   devPtrs, streamOk, useAfterFree>>

CpuThreadNext ==
    \/ ComputeEasyCases
    \/ ComputeReturnEarly
    \/ CpuSetup
    \/ CpuAllocateOutput
    \/ CpuSplit
    \/ CpuLoopExit

GpuThreadNext ==
    \/ ComputeEasyCases
    \/ ComputeReturnEarly
    \/ GpuSetup
    \/ GpuAllocHost
    \/ GpuAllocDev
    \/ GpuAllocateOutput
    \/ GpuCheckEmpty
    \/ GpuThenMemcpy
    \/ GpuThenExecute
    \/ GpuLaunch
    \/ GpuCheckStream
    \/ GpuReturn

StreamNext ==
    \/ StreamRunMemcpy
    \/ StreamRunCallback
    \/ StreamRunKernel

Next == CpuThreadNext \/ GpuThreadNext \/ StreamNext \/ StreamFails

Spec == Init /\ [][Next]_vars

\* One invocation of SplitOpGPU::Compute.
GpuInit == Init /\ device = "GPU"

GpuNext == GpuThreadNext \/ StreamNext \/ StreamFails

\* The calling thread runs to its return and the stream runs what is enqueued.
GpuFairSpec ==
    GpuInit /\ [][GpuNext]_vars /\ WF_vars(GpuThreadNext) /\ WF_vars(StreamNext)


\* ------------------------------------------------------------- vocabulary
Range(q) == {q[k] : k \in 1..Len(q)}

EventOps == [k \in 1..Len(events) |-> events[k].op]

NoOutputsSet == \A k \in OutIdx : outputs[k] = NoOutput

NothingEnqueued == queue = <<>> /\ executed = <<>>

EasyCasesReturned == pc # "start"

\* The split axis is out of range, the count is not positive, or the count
\* does not divide the size of the split axis.
ArgsInvalid ==
    IF split_dim < 0 \/ split_dim >= Len(input_shape) \/ num_split <= 0
    THEN TRUE
    ELSE DimSize(input_shape, split_dim) % num_split # 0

InnerBytesAligned == IsInnerDimsSizeAligned(input_shape, sizeofT)

IdentityCase == ~ArgsInvalid /\ num_split = 1

SliceCase == ~ArgsInvalid /\ num_split > 1 /\ split_dim = 0 /\ InnerBytesAligned

GeneralCase == ~ArgsInvalid /\ ~IdentityCase /\ ~SliceCase

\* ---------------------------------------------------------------- claims
\* C1: whenever the arguments are invalid, the invocation ends with
\* InvalidArgument and has set no output, allocated no output or temporary,
\* invoked no copy and enqueued nothing; the checks come before the identity
\* and dim-0 fast paths (done stays false, whatever num_split and split_dim).
C1_InvalidArgsRejected ==
    (EasyCasesReturned /\ ArgsInvalid) =>
        /\ status = "InvalidArgument"
        /\ pc \in {"easy_returned", "done"}
        /\ ~done
        /\ NoOutputsSet
        /\ events = <<>>
        /\ ~hostAllocated
        /\ NothingEnqueued

C1_Witness ==
    /\ pc = "done"
    /\ status = "InvalidArgument"
    /\ 0 <= split_dim /\ split_dim < Len(input_shape)
    /\ num_split > 1
    /\ DimSize(input_shape, split_dim) % num_split # 0

\* C3: whenever num_split = 1 and split_dim is in range, on either device,
\* output 0 is the input tensor itself, the invocation is done, and there was
\* no allocation, no dimension collapsing, no copy and no enqueue.
C3_IdentityAliasesInput ==
    (EasyCasesReturned /\ num_split = 1
        /\ 0 <= split_dim /\ split_dim < Len(input_shape)) =>
        /\ outputs[0].kind = "input"
        /\ outputs[0].shape = input_shape
        /\ outputs[0].data = InputData(input_shape)
        /\ \A k \in OutIdx \ {0} : outputs[k] = NoOutput
        /\ done
        /\ status = "OK"
        /\ pc \in {"easy_returned", "done"}
        /\ events = <<>>
        /\ dims = <<>>
        /\ ~hostAllocated
        /\ NothingEnqueued

C3_Witness ==
    /\ pc = "done"
    /\ device = "GPU"
    /\ num_split = 1
    /\ split_dim = 1
    /\ NumElements(input_shape) > 1
    /\ outputs[0].kind = "input"

\* C4: in the dim-0 aligned case output i is the non-owning slice of rows
\* [i*delta, (i+1)*delta) of the input, delta = dim0_size / num_split; the row
\* ranges are pairwise disjoint and cover [0, dim0_size); nothing is allocated
\* and nothing copied.  When neither fast path applies, ComputeEasyCases sets
\* no output and leaves done false.
C4_Dim0SlicesOrNoFastPath ==
    /\ (EasyCasesReturned /\ SliceCase) =>
        LET dim0  == DimSize(input_shape, 0)
            delta == dim0 \div num_split
        IN  /\ \A k \in 0..(num_split - 1) :
                  /\ outputs[k].kind = "slice"
                  /\ outputs[k].lo = k * delta
                  /\ outputs[k].hi = (k + 1) * delta
                  /\ outputs[k].shape = SetDim(input_shape, 0, delta)
                  /\ Len(outputs[k].data) = delta * InnerElements(input_shape)
                  /\ \A e \in 1..Len(outputs[k].data) :
                        outputs[k].data[e] =
                            k * delta * InnerElements(input_shape) + e - 1
            /\ \A r \in 0..(dim0 - 1) :
                  Cardinality({k \in 0..(num_split - 1) :
                      outputs[k].lo <= r /\ r < outputs[k].hi}) = 1
            /\ \A k \in OutIdx : k >= num_split => outputs[k] = NoOutput
            /\ done /\ status = "OK"
            /\ events = <<>>
            /\ NothingEnqueued
    /\ (pc = "easy_returned" /\ GeneralCase) =>
            /\ NoOutputsSet
            /\ ~done
            /\ status = "OK"
            /\ events = <<>>

C4_Witness ==
    /\ pc = "done"
    /\ SliceCase
    /\ num_split = 2
    /\ input_shape = <<4, 3>>
    /\ sizeofT = 2
    /\ outputs[1].lo = 2 /\ outputs[1].hi = 4

\* ------------------------------------------------- GPU staging and stream
IsPrefix(a, b) == Len(a) <= Len(b) /\ a = SubSeq(b, 1, Len(a))

StreamOrder == <<"memcpy", "callback", "kernel">>

EnqueueOps == {"enqueue_memcpy", "enqueue_callback", "enqueue_kernel"}

AnythingEnqueued == Range(EventOps) \cap EnqueueOps # {}

Launched == "enqueue_kernel" \in Range(EventOps)

AllocationFailed == status = "ResourceExhausted"

\* C5: the host pointer array is never released while the host-to-device
\* copy that reads it is pending, under every interleaving of the calling
\* thread, the stream and the callback: the reference taken before the copy
\* is enqueued is held until the callback, which runs after the copy.
C5_HostBufferOutlivesCopy ==
    /\ ~useAfterFree
    /\ "memcpy" \in Range(queue) => (hostFreeCount = 0 /\ hostRefs >= 1)
    /\ "enqueue_memcpy" \in Range(EventOps) => refTaken
    /\ (refTaken /\ "callback" \notin Range(executed)) =>
            (hostFreeCount = 0 /\ hostRefs >= 1)
    /\ "callback" \in Range(executed) => "memcpy" \in Range(executed)

C5_Witness ==
    /\ pc = "done"
    /\ queue = StreamOrder
    /\ hostRefs = 1
    /\ hostFreeCount = 0

\* C6 (state part): after a failed allocation the invocation has stopped with
\* the failure as its status, the outputs below the failed index are
\* allocated, no output at or above it is allocated, no copy was invoked for
\* such an index, and on GPU nothing was enqueued.
C6_StoppedAtFailure ==
    AllocationFailed =>
        /\ pc \in {"done", "gpu_return"}
        /\ \A k \in OutIdx :
              IF k < i THEN outputs[k].kind = "alloc"
              ELSE outputs[k] = NoOutput
        /\ \A e \in 1..Len(events) :
              events[e].op \in {"Split", "allocate_output"} => events[e].idx < i
        /\ ~AnythingEnqueued
        /\ NothingEnqueued

\* C6: the state part always holds, and once the allocation has failed the
\* outputs, the history of allocations and copies, the stream and the status
\* never change again (nothing is rolled back, nothing more is done).
C6_AllocationFailureStops ==
    /\ []C6_StoppedAtFailure
    /\ [][AllocationFailed =>
            UNCHANGED <<outputs, events, queue, executed, status, i>>]_vars

C6_Witness ==
    /\ AllocationFailed
    /\ device = "CPU"
    /\ pc = "done"
    /\ num_split = 3
    /\ i = 2
    /\ \A k \in {0, 1} :
          /\ Len(outputs[k].data) > 1
          /\ \A e \in 1..Len(outputs[k].data) : outputs[k].data[e] # Uninit

GpuOrder ==
    <<AllocEv("allocate_temp_host", 0), AllocEv("allocate_temp_gpu", 0)>>
    \o [k \in 1..num_split |-> AllocEv("allocate_output", k - 1)]
    \o <<AllocEv("enqueue_memcpy", 0), AllocEv("enqueue_callback", 0),
         AllocEv("enqueue_kernel", 0)>>

\* C8: on GPU the calling thread's history is a prefix of: host array, device
\* array, outputs 0..num_split-1, memcpy, callback, one kernel launch; all
\* pointers are in the host array before anything is enqueued; the stream runs
\* in enqueue order, so the kernel runs after the copy; with zero elements
\* nothing is enqueued and Compute returns after the allocations; on CPU the
\* copy for output i comes after the allocation of output i.
C8_OrderOfEvents ==
    /\ device = "GPU" =>
        /\ IsPrefix(events, GpuOrder)
        /\ AnythingEnqueued =>
              \A k \in 0..(num_split - 1) :
                  outputs[k].kind = "alloc" /\ hostPtrs[k] = k
        /\ IsPrefix(executed \o queue, StreamOrder)
        /\ Len(executed \o queue) =
              Cardinality({e \in 1..Len(events) : events[e].op \in EnqueueOps})
        /\ "kernel" \in Range(executed) =>
              /\ "memcpy" \in Range(executed)
              /\ \A k \in 0..(num_split - 1) : devPtrs[k] = k
        /\ (AnythingEnqueued /\ pc \in {"gpu_return", "done"}) => events = GpuOrder
        /\ (GeneralCase /\ NumElements(input_shape) = 0) =>
              /\ ~AnythingEnqueued
              /\ NothingEnqueued
              /\ (pc = "done" /\ status = "OK") =>
                    events = SubSeq(GpuOrder, 1, 2 + num_split)
    /\ device = "CPU" =>
        \A e \in 1..Len(events) :
            events[e].op = "Split" =>
                \E a \in 1..(e - 1) :
                    events[a] = AllocEv("allocate_output", events[e].idx)

C8_Witness ==
    /\ device = "GPU"
    /\ pc = "done"
    /\ num_split = 3
    /\ executed = StreamOrder

\* C10 (state part): the staging buffer is released at most once and its count
\* never goes negative; it has been released exactly when Compute has returned
\* and, if the extra reference was taken, the callback has run; the extra
\* reference is taken only on the launch path and at most one callback exists.
C10_ReleaseAccounting ==
    /\ hostFreeCount <= 1
    /\ hostRefs >= 0
    /\ hostFreeCount = 1 <=>
          (hostAllocated /\ pc = "done"
              /\ (refTaken => "callback" \in Range(executed)))
    /\ refTaken <=> pc \in {"gpu_memcpy", "gpu_callback", "gpu_launch", "gpu_check"}
                    \/ AnythingEnqueued
    /\ Cardinality({e \in 1..Len(executed \o queue) :
                        (executed \o queue)[e] = "callback"}) <= 1
    /\ ~refTaken => "callback" \notin Range(executed \o queue)

\* C10: on every path that allocates the host staging buffer it is eventually
\* released, exactly once, given that the calling thread and the stream make
\* progress.
C10_StagingBufferReleasedOnce ==
    /\ []C10_ReleaseAccounting
    /\ hostAllocated ~> (hostFreeCount = 1)

C10_Witness ==
    /\ pc = "done"
    /\ refTaken
    /\ executed = StreamOrder
    /\ hostFreeCount = 1
    /\ hostRefs = 0

\* ------------------------------------------------ what a split should be
\* Row-major position of the N-D index idx in a tensor of shape s.
RECURSIVE FlatIndex(_, _)
FlatIndex(s, idx) ==
    IF s = <<>> THEN 0
    ELSE FlatIndex(SubSeq(s, 1, Len(s) - 1), SubSeq(idx, 1, Len(idx) - 1))
            * s[Len(s)] + idx[Len(idx)]

\* The N-D index of row-major position f in a tensor of shape s.
RECURSIVE Unflatten(_, _)
Unflatten(s, f) ==
    IF s = <<>> THEN <<>>
    ELSE Append(Unflatten(SubSeq(s, 1, Len(s) - 1), f \div s[Len(s)]),
                f % s[Len(s)])

TrueDelta == DimSize(input_shape, split_dim) \div num_split

ExpectedShape == SetDim(input_shape, split_dim, TrueDelta)

\* Output k holds the input elements whose split-axis index is in
\* [k * delta, (k + 1) * delta), in the input's order.
ExpectedData(k) ==
    [e \in 1..NumElements(ExpectedShape) |->
        FlatIndex(input_shape,
                  [Unflatten(ExpectedShape, e - 1) EXCEPT ![split_dim + 1] =
                        @ + k * TrueDelta])]

TruePrefix == NumElements(SubSeq(input_shape, 1, split_dim))

TrueSuffix == NumElements(SubSeq(input_shape, split_dim + 2, Len(input_shape)))

SplitCalls(k) == {e \in 1..Len(events) : events[e].op = "Split" /\ events[e].idx = k}

Finished == pc = "done" /\ status = "OK" /\ queue = <<>>

OutputsAreTheSplit ==
    \A k \in OutIdx :
        IF k < num_split
        THEN /\ outputs[k].kind # "none"
             /\ outputs[k].shape = ExpectedShape
             /\ outputs[k].data = ExpectedData(k)
        ELSE outputs[k] = NoOutput

\* C2: for valid arguments a successful Compute leaves exactly num_split
\* outputs, output k of the input's shape with the split axis reduced to delta
\* and holding the input elements of split-axis indices [k*delta, (k+1)*delta)
\* in order, on the identity, slice and general paths; a copy for output k
\* reads the 3-D view at (0, k*delta, 0) with extents (prefix, delta, suffix).
C2_OutputsPartitionInput ==
    (Finished /\ ~ArgsInvalid) =>
        /\ OutputsAreTheSplit
        /\ \A e \in 1..Len(events) :
              events[e].op = "Split" =>
                  /\ events[e].start = <<0, events[e].idx * TrueDelta, 0>>
                  /\ events[e].sizes = <<TruePrefix, TrueDelta, TrueSuffix>>

\* C9: on the CPU general path SetDims returns sizes that multiply to the
\* input's element count, and the copy is invoked exactly once for output k
\* when the output's true element count is non-zero and never when it is zero.
C9_CopyOncePerNonEmptyOutput ==
    (device = "CPU" /\ GeneralCase) =>
        /\ dims # <<>> => dims[1] * dims[2] * dims[3] = NumElements(input_shape)
        /\ (pc = "done" /\ status = "OK") =>
              \A k \in 0..(num_split - 1) :
                  Cardinality(SplitCalls(k)) =
                      (IF TruePrefix * TrueDelta * TrueSuffix # 0 THEN 1 ELSE 0)

\* The element count and every collapsed size fit the integer type.
FitsInt32 == NumElements(input_shape) < Pow2(IntBits - 1)

\* Within the integer range the outputs are the split and each non-empty
\* output is copied once.
SplitCorrectWithinInt32 ==
    (FitsInt32 /\ ~ArgsInvalid) =>
        /\ pc # "aborted"
        /\ Finished => OutputsAreTheSplit
        /\ (pc = "done" /\ status = "OK" /\ device = "CPU" /\ GeneralCase) =>
              \A k \in 0..(num_split - 1) :
                  Cardinality(SplitCalls(k)) =
                      (IF NumElements(ExpectedShape) # 0 THEN 1 ELSE 0)

=============================================================================
